---- MODULE Spec2Model ----
(***************************************************************************)
(* Gesture-to-pointer control engine of AirMouse.                          *)
(*                                                                         *)
(* Two programs share the engine: MainV1.py (weighted moving average over  *)
(* the last 15 mapped coordinates) and mouse9.py (adaptive moveTo          *)
(* duration).  The variable `variant` selects the program; it is chosen    *)
(* at start and never changes.                                             *)
(*                                                                         *)
(* The worker thread HandMouseController.run is a process whose position   *)
(* is `pc`.  It takes one step per read of the shared `enabled` flag and   *)
(* one step per call into pyautogui, so that the hotkey thread             *)
(* (toggleEnabled), the tray menu (exitApp -> stop) and the sliders        *)
(* interleave with it exactly where the Python threads can.                *)
(*                                                                         *)
(* Units.  Distances are pixel-scale values (calculate_distance(..) *      *)
(* frame_width) drawn from small integer sets.  A fingertip coordinate is  *)
(* the normalized landmark value times TipDen.  Smoothing factors and      *)
(* moveTo durations are in thousandths of a second.                        *)
(***************************************************************************)
EXTENDS Integers, Sequences, FiniteSets, TLC

\* ---------------------------------------------------------------- bounds
ScreenW == 24          \* pyautogui.size() width used by the engine model
ScreenH == 16          \* pyautogui.size() height used by the engine model
TipDen == 16           \* a normalized landmark coordinate is n / TipDen
MaxPointFrames == 2    \* pointing frames MainV1.py is shown (its history grows)
MaxCalls == 17         \* calls of smooth_coordinates made on its own
MaxDist == 210         \* largest thumb-index distance given to the smoothing rule

\* camera resolutions <<frame_width, frame_height>>: a usual one, one that
\* makes the sensing rectangle's width zero, and one that makes it negative
UsualFrame == <<640, 480>>
FrameSizes == {UsualFrame, <<200, 480>>, <<160, 120>>}

\* screens <<screen_width, screen_height>> the mapper is tried with on its own
Screens == {<<ScreenW, ScreenH>>, <<1920, 1080>>}

\* pixel-scale distances the detector can report
ThumbIndexDists == {20, 30, 100}
ThumbMiddleDists == {20, 40}
CloseDists == {20, 30}

\* index_tip.y * TipDen in a scroll-gesture frame
ScrollTipYs == {0, 5, 12}
\* index_tip <<x, y>> * TipDen in a pointing frame
PointTips == {<<16, 16>>}

\* the threads the keyboard library runs the Ctrl+Q callback on
HotkeyThreads == {"h1", "h2"}

\* values the settings window's sliders are moved to
ThresholdVals == {30, 40}
SensVals == {5, 20}
MinDistVals == {60, 100}
StartSmoothVals == {100, 200}
MaxSmoothVals == {1, 5}

\* ------------------------------------------------------ program constants
QueueLen == 15              \* deque(maxlen=15)
CloseLimit == 30            \* fingers_close = close_dist < 30
scroll_threshold == 5
scroll_multiplier == 4
margin == 100
min_smoothing == 10         \* 0.01
DefaultSmoothing == 10      \* smoothing = 0.01
DefaultThreshold == 30      \* left_click_threshold = right_click_threshold = 30
DefaultSensV1 == 5
DefaultSensM9 == 1
DefaultMinDistance == 60
DefaultStartSmooth == 200
DefaultMaxSmoothing == 50   \* 0.05
MoveDurationV1 == 1         \* duration=0.001

None == <<>>                \* Python None: an optional value is <<>> or <<v>>

VARIABLES
  variant,                  \* "V1" (MainV1.py) or "M9" (mouse9.py)
  frame_width, frame_height,
  \* ---- HandMouseController fields
  stop_flag, enabled,
  smooth_queue,
  left_button_down, right_button_down, scroll_y_prev, scroll_mode,
  left_click_threshold, right_click_threshold, scroll_sensitivity,
  start_smooth_distance, min_distance, max_smoothing,
  \* ---- the worker thread
  pc,                       \* position of run()
  err,                      \* the exception that ended run(), "" if none
  close_dist, thumb_index_dist,   \* locals of run() that outlive a step
  pend,                     \* the pyautogui call about to be made
  cap_open, windows_open,   \* cv2.VideoCapture / cv2 windows
  \* ---- the hotkey threads running toggleEnabled
  lock,                     \* controller.lock: None, or <<t>> held by thread t
  hk_pc,                    \* position of each thread in toggleEnabled
  hk_read,                  \* the value of controller.enabled a thread has read
  \* ---- a function of the engine called on its own
  call_args, call_result,   \* arguments and result of the last call
  \* ---- observation of the run (never read by the program)
  frameCmds,                \* pyautogui calls made in the current frame
  obs,                      \* what the current frame saw and decided
  prev,                     \* the same, of the frames before it
  last_down,                \* per side: the last button call that returned
                            \*   was mouseDown
  toggles_odd,              \* an odd number of toggleEnabled calls has returned
  history                   \* every coordinate handed to smooth_coordinates

engine == <<smooth_queue, left_button_down, right_button_down,
            scroll_y_prev, scroll_mode>>
config == <<left_click_threshold, right_click_threshold, scroll_sensitivity,
            start_smooth_distance, min_distance, max_smoothing>>
camera == <<variant, frame_width, frame_height>>
locals == <<close_dist, thumb_index_dist, pend>>
resources == <<cap_open, windows_open>>
ghost == <<frameCmds, obs, prev>>
hotkey == <<lock, hk_pc, hk_read, toggles_odd>>
calls == <<call_args, call_result, history>>
vars == <<hotkey, calls, camera, last_down, stop_flag, enabled, engine, config, pc, err,
          locals, resources, ghost>>

\* ------------------------------------------------------------ arithmetic
Abs(n) == IF n < 0 THEN -n ELSE n
Max(a, b) == IF a > b THEN a ELSE b
Min(a, b) == IF a < b THEN a ELSE b

\* int(a / b) of Python for b > 0: the quotient truncated toward zero
TruncDiv(a, b) == IF a >= 0 THEN a \div b ELSE -((-a) \div b)

\* round(a / b) for a >= 0, b > 0, ties to the even neighbour
RoundDiv(a, b) ==
  LET q == a \div b
      r == a % b
  IN  IF 2 * r < b THEN q
      ELSE IF 2 * r > b THEN q + 1
      ELSE IF q % 2 = 0 THEN q ELSE q + 1

\* ------------------------------------------------------ Gesture Classifier
\* a slip: the closeness of the two fingertips is not asked for
ScrollGesture_NoClose(index_extended, middle_extended, cd) ==
  index_extended /\ middle_extended

\* scroll-mode decision: index extended, middle extended, tips closer than 30
ScrollGesture(index_extended, middle_extended, cd) ==
  index_extended /\ middle_extended /\ cd < CloseLimit

\* -------------------------------------------------------- Scroll Controller
\* current_scroll_y = int(index_tip.y * self.screen_height)
CurrentScrollY(ty) == TruncDiv(ty * ScreenH, TipDen)

\* abs(delta_y) > self.scroll_threshold
ScrollExceeds(delta_y) == Abs(delta_y) > scroll_threshold

\* a slip: Python's floor division // instead of int(a / b)
ScrollArg_Floor(delta_y, sens) == -((delta_y \div sens) * scroll_multiplier)

\* the argument of pyautogui.scroll:
\*   scroll_amount = int(delta_y / sensitivity) * multiplier; scroll(-scroll_amount)
ScrollArg(delta_y, sens) == -(TruncDiv(delta_y, sens) * scroll_multiplier)

\* -------------------------------------------------------- Coordinate Mapper
\* the sensing rectangle on one axis of a frame that is `fdim` pixels long
RoiMin == margin
RoiMax(fdim) == fdim - margin
RoiSize(fdim) == RoiMax(fdim) - RoiMin

\* a slip: the pixel is not clamped to the sensing rectangle
MapAxis_NoClamp(tip, fdim, sdim) ==
  TruncDiv((tip * fdim - RoiMin * TipDen) * sdim, RoiSize(fdim) * TipDen)

\* px = tip * fdim; px = max(lo, min(hi, px)); int((px - lo) / roi * sdim).
\* All pixel quantities are carried times TipDen so that they stay integers.
\* Defined for RoiSize(fdim) # 0 (Python raises ZeroDivisionError otherwise);
\* with a negative rectangle the clamp yields lo and the quotient is -0.0.
MapAxis(tip, fdim, sdim) ==
  LET lo == RoiMin * TipDen
      hi == RoiMax(fdim) * TipDen
      px == Max(lo, Min(hi, tip * fdim))
      num == (px - lo) * sdim
      den == RoiSize(fdim) * TipDen
  IN  IF den > 0 THEN TruncDiv(num, den) ELSE -TruncDiv(num, -den)

\* ---------------------------------------------- Smoothing Filter, variant A
\* a slip: a plain list, nothing is ever evicted
Append15_Unbounded(q, e) == Append(q, e)

\* deque(maxlen=15).append
Append15(q, e) == IF Len(q) < QueueLen THEN Append(q, e)
                  ELSE Append(Tail(q), e)

RECURSIVE WeightedSum(_, _, _)
\* sum(v * w for v, w in zip(queue, range(1, n + 1))), component c of each entry
WeightedSum(q, c, i) ==
  IF i > Len(q) THEN 0 ELSE q[i][c] * i + WeightedSum(q, c, i + 1)

SumWeights(n) == (n * (n + 1)) \div 2

\* avg = int(sum / sum_weights); max(0, min(limit - 1, avg))
SmoothAxis(q, c, limit) ==
  Max(0, Min(limit - 1, TruncDiv(WeightedSum(q, c, 1), SumWeights(Len(q)))))

\* smooth_coordinates returns (avg_x, avg_y) for the queue after the append
SmoothCoordinates(q) ==
  <<SmoothAxis(q, 1, ScreenW), SmoothAxis(q, 2, ScreenH)>>

\* ---------------------------------------------- Smoothing Filter, variant B
\* the interpolation divides by (start_smooth_distance - min_distance)
SmoothingRaises(d, start, mind) ==
  ~(d > start) /\ ~(d < mind) /\ start - mind = 0

\* a slip: the ratio measured from min_distance instead of start_smooth_distance
Smoothing_Rising(d, start, mind, maxs) ==
  LET raw == IF d > start THEN DefaultSmoothing
             ELSE IF d < mind THEN maxs
             ELSE min_smoothing
                  + RoundDiv((d - mind) * (maxs - min_smoothing), start - mind)
  IN  Max(min_smoothing, Min(maxs, raw))

\* smoothing factor in thousandths, for SmoothingRaises(..) false
Smoothing(d, start, mind, maxs) ==
  LET raw == IF d > start THEN DefaultSmoothing
             ELSE IF d < mind THEN maxs
             ELSE min_smoothing
                  + RoundDiv((start - d) * (maxs - min_smoothing), start - mind)
  IN  Max(min_smoothing, Min(maxs, raw))

\* ----------------------------------------------------- Button State Machine
LeftPredicate(ti, threshold) == ti < threshold

\* a slip: the thumb-index distance is not asked for
RightPredicate_NoThumbIndex(ti, tm, cd, threshold) ==
  tm < threshold /\ cd < threshold

\* a slip: the index-middle distance is not asked for
RightPredicate_NoClose(ti, tm, cd, threshold) ==
  ti < threshold /\ tm < threshold

RightPredicate(ti, tm, cd, threshold) ==
  ti < threshold /\ tm < threshold /\ cd < threshold

\* a slip: the right button's block placed above the left button's
FirstButton_Right == "right"

\* the two blocks run in a fixed order inside the hand branch: left, then right
FirstButton == "left"

\* where run() goes after the block of one button
AfterButton(side) ==
  IF side = FirstButton THEN (IF side = "left" THEN "right" ELSE "left")
  ELSE "show"

\* ------------------------------------------------------------- observation
\* a call made into pyautogui: MoveTo(x, y, duration n), ScrollBy(n),
\* ButtonDown(side), ButtonUp(side)
Cmd(kind, side, x, y, n) ==
  [kind |-> kind, side |-> side, x |-> x, y |-> y, n |-> n]

NoPend == [kind |-> "none", side |-> "none", x |-> 0, y |-> 0, n |-> 0]
Pend(kind, side, x, y, n) ==
  [kind |-> kind, side |-> side, x |-> x, y |-> y, n |-> n]

\* kind: what the detector showed: "nohand", or "scroll" when index and middle
\*   finger are extended and their tips closer than 30 px, or else "point";
\* cur: the current Y of a scroll-gesture frame;
\* delta, sens, en: in a scroll-gesture frame with a previous Y, the difference
\*   to it and scroll_sensitivity and enabled as the scroll decision read them
\*   (kept until the worker turns to the pointer);
\* left: "below" when the thumb-index distance was strictly below
\*   left_click_threshold as the left decision was taken, "above" when not,
\*   "unknown" when the decision read enabled as false;
\* right: the same for the right decision: "below" when the thumb-index, the
\*   thumb-middle and the index-middle distance were all strictly below
\*   right_click_threshold
NoObs == [kind |-> "none", cur |-> None, delta |-> None, sens |-> None,
          en |-> None, left |-> "none", right |-> "none"]

\* the same for the previous processed frame, and kind and Y of the previous
\* frame that showed a hand
NoPrev == [kind |-> "none", left |-> "none", right |-> "none",
           handKind |-> "none", y |-> None]


\* ------------------------------------------------------------------- Init
\* HandMouseController.__init__ followed by cv2.VideoCapture(0) in run()
InitWith(variants, sizes) ==
  /\ variant \in variants
  /\ \E fs \in sizes : frame_width = fs[1] /\ frame_height = fs[2]
  /\ stop_flag = FALSE
  /\ enabled = TRUE
  /\ smooth_queue = <<>>
  /\ left_button_down = FALSE
  /\ right_button_down = FALSE
  /\ scroll_y_prev = None
  /\ scroll_mode = FALSE
  /\ left_click_threshold = DefaultThreshold
  /\ right_click_threshold = DefaultThreshold
  /\ scroll_sensitivity = IF variant = "V1" THEN DefaultSensV1
                                            ELSE DefaultSensM9
  /\ start_smooth_distance = DefaultStartSmooth
  /\ min_distance = DefaultMinDistance
  /\ max_smoothing = DefaultMaxSmoothing
  /\ pc = "top"
  /\ err = ""
  /\ close_dist = None
  /\ thumb_index_dist = None
  /\ pend = NoPend
  /\ cap_open = TRUE
  /\ windows_open = FALSE
  /\ frameCmds = <<>>
  /\ obs = NoObs
  /\ prev = NoPrev
  /\ last_down = [left |-> FALSE, right |-> FALSE]
  /\ lock = None
  /\ hk_pc = [t \in HotkeyThreads |-> "idle"]
  /\ hk_read = [t \in HotkeyThreads |-> None]
  /\ toggles_odd = FALSE
  /\ call_args = None
  /\ call_result = None
  /\ history = <<>>

\* either program behind a camera of the usual resolution
Init == InitWith({"V1", "M9"}, {UsualFrame})

\* MainV1.py, the program with the weighted moving average
InitV1 == InitWith({"V1"}, {UsualFrame})

\* either program behind any of the cameras
InitCamera == InitWith({"V1", "M9"}, FrameSizes)

\* mouse9.py, the program with the adaptive smoothing settings
InitM9 == InitWith({"M9"}, {UsualFrame})

\* ----------------------------------------------------------- worker: run()
\* an exception leaves run(): the thread ends, nothing after the loop runs
Raise(e) ==
  /\ pc' = "crashed"
  /\ err' = e
  /\ pend' = NoPend

\* a slip: the loop condition does not look at the stop flag
Top_IgnoreStop ==
  /\ pc = "top"
  /\ pc' = "read"
  /\ UNCHANGED <<hotkey, calls, camera, last_down, stop_flag, enabled, engine, config,
                 err, locals, resources, ghost>>

\* while not self._stop_flag:
Top ==
  /\ pc = "top"
  /\ pc' = IF stop_flag THEN "cleanup" ELSE "read"
  /\ UNCHANGED <<hotkey, calls, camera, last_down, stop_flag, enabled, engine, config, err, locals,
                 resources, ghost>>

\* a slip: releasing the gesture state when the hand is lost
NoHandFrame_Release ==
  /\ pc' = "show"
  /\ obs' = [NoObs EXCEPT !.kind = "nohand"]
  /\ left_button_down' = FALSE
  /\ scroll_y_prev' = None
  /\ UNCHANGED <<smooth_queue, right_button_down, scroll_mode, frameCmds>>

\* a frame without a hand: the body of `if result.multi_hand_landmarks` is
\* skipped and there is no else branch
NoHandFrame ==
  /\ pc' = "show"
  /\ obs' = [NoObs EXCEPT !.kind = "nohand"]
  /\ UNCHANGED <<engine, frameCmds>>

\* ret, frame = cap.read(); ROI; self.hands.process(rgb_frame)
Read ==
  /\ pc = "read"
  /\ \E ret \in BOOLEAN :
       IF ~ret
       THEN \* time.sleep(0.01); continue
            /\ pc' = "top"
            /\ UNCHANGED <<engine, frameCmds, obs>>
       ELSE \E hand \in BOOLEAN :
              IF hand
              THEN /\ pc' = "gesture"
                   /\ UNCHANGED <<engine, frameCmds, obs>>
              ELSE NoHandFrame
  /\ UNCHANGED <<hotkey, calls, camera, last_down, stop_flag, enabled, config, err, locals, resources,
                 prev>>

\* bound on the input: the hand shows a pointing pose to MainV1.py only while
\* its history holds fewer than MaxPointFrames entries
PointAllowed ==
  variant = "V1" => Len(smooth_queue) < MaxPointFrames

\* observation of the frame the detector shows
ObserveGesture(index_extended, middle_extended, cd, ty) ==
  IF index_extended /\ middle_extended /\ cd < CloseLimit
  THEN LET y == TruncDiv(ty * ScreenH, TipDen)
       IN  IF scroll_y_prev # None
           THEN obs' = [obs EXCEPT !.kind = "scroll", !.cur = <<y>>,
                                   !.delta = <<y - scroll_y_prev[1]>>,
                                   !.sens = <<scroll_sensitivity>>,
                                   !.en = <<enabled>>]
           ELSE obs' = [obs EXCEPT !.kind = "scroll", !.cur = <<y>>]
  ELSE obs' = [obs EXCEPT !.kind = "point"]

\* a slip: the previous Y survives the end of scroll mode
LeaveScrollMode_KeepY ==
  /\ scroll_mode' = FALSE
  /\ UNCHANGED scroll_y_prev

\* else: self.scroll_mode = False; self.scroll_y_prev = None
LeaveScrollMode ==
  /\ scroll_mode' = FALSE
  /\ scroll_y_prev' = None

\* a slip: the Y is remembered only while control is enabled
RememberScrollY_WhenEnabled(current_scroll_y) ==
  scroll_y_prev' = IF enabled THEN <<current_scroll_y>> ELSE scroll_y_prev

\* self.scroll_y_prev = current_scroll_y: the last statement of the scroll
\* branch, outside both ifs
RememberScrollY(current_scroll_y) ==
  scroll_y_prev' = <<current_scroll_y>>

\* scroll-mode decision up to the read of self.enabled.  enabled (line 136) and
\* scroll_sensitivity (line 137) are written by different threads, so reading
\* both in one step loses no interleaving: a slider write between the two
\* reads acts as one before the step, a toggle as one after it.
Gesture ==
  /\ pc = "gesture"
  /\ \E index_extended \in BOOLEAN, middle_extended \in BOOLEAN,
        cd \in CloseDists, ty \in ScrollTipYs :
       /\ ScrollGesture(index_extended, middle_extended, cd) \/ PointAllowed
       /\ ObserveGesture(index_extended, middle_extended, cd, ty)
       /\ close_dist' = <<cd>>
       /\ IF ScrollGesture(index_extended, middle_extended, cd)
          THEN LET current_scroll_y == CurrentScrollY(ty)
                   delta_y == current_scroll_y - scroll_y_prev[1]
               IN  /\ scroll_mode' = TRUE
                   /\ IF /\ scroll_y_prev # None
                         /\ ScrollExceeds(delta_y)
                         /\ enabled
                      THEN /\ pend' = Pend("ScrollBy", "none", 0,
                                           current_scroll_y,
                                           ScrollArg(delta_y, scroll_sensitivity))
                           /\ pc' = "scroll_call"
                           /\ UNCHANGED scroll_y_prev
                      ELSE /\ RememberScrollY(current_scroll_y)
                           /\ pc' = "move"
                           /\ UNCHANGED pend
          ELSE /\ LeaveScrollMode
               /\ pc' = "move"
               /\ UNCHANGED pend
  /\ UNCHANGED <<hotkey, calls, camera, last_down, stop_flag, enabled, smooth_queue, left_button_down,
                 right_button_down, config, err, thumb_index_dist, resources,
                 frameCmds, prev>>

\* pyautogui.scroll(-scroll_amount); self.scroll_y_prev = current_scroll_y
ScrollCall ==
  /\ pc = "scroll_call"
  /\ \E ok \in BOOLEAN :
       /\ frameCmds' = Append(frameCmds,
                              Cmd("ScrollBy", "none", 0, 0, pend.n))
       /\ IF ok
          THEN /\ RememberScrollY(pend.y)
               /\ pc' = "move"
               /\ pend' = NoPend
               /\ UNCHANGED err
          ELSE /\ Raise("scroll")
               /\ UNCHANGED scroll_y_prev
  /\ UNCHANGED <<hotkey, calls, camera, last_down, stop_flag, enabled, smooth_queue, left_button_down,
                 right_button_down, scroll_mode, config, close_dist,
                 thumb_index_dist, resources, obs, prev>>

\* what MainV1.py does with the mapped coordinate: smooth it, then read enabled
MoveV1(mapped) ==
  LET q == Append15(smooth_queue, mapped)
      cursor == SmoothCoordinates(q)
  IN  /\ smooth_queue' = q
      /\ IF enabled
         THEN /\ pend' = Pend("MoveTo", "none", cursor[1], cursor[2],
                              MoveDurationV1)
              /\ pc' = "move_call"
         ELSE /\ pc' = FirstButton
              /\ UNCHANGED pend

\* what mouse9.py does with it: pass it on with duration = smoothing
MoveM9(mapped, smoothing) ==
  /\ UNCHANGED smooth_queue
  /\ IF enabled
     THEN /\ pend' = Pend("MoveTo", "none", mapped[1], mapped[2], smoothing)
          /\ pc' = "move_call"
     ELSE /\ pc' = FirstButton
          /\ UNCHANGED pend

\* `if not self.scroll_mode:` ROI mapping up to the read of self.enabled
MapAndMove(tip, smoothing) ==
  IF RoiSize(frame_width) = 0 \/ RoiSize(frame_height) = 0
  THEN /\ Raise("ZeroDivisionError: roi")
       /\ UNCHANGED smooth_queue
  ELSE LET mapped == <<MapAxis(tip[1], frame_width, ScreenW),
                       MapAxis(tip[2], frame_height, ScreenH)>>
       IN  /\ UNCHANGED err
           /\ IF variant = "V1" THEN MoveV1(mapped)
                                ELSE MoveM9(mapped, smoothing)

\* a slip: the pointer is moved in scroll mode too
PointerSuspended_Never == FALSE

\* `if not self.scroll_mode:` guards the mapping and the moveTo
PointerSuspended == scroll_mode

\* mouse9.py computes the smoothing factor first, in every hand-present frame
Move ==
  /\ pc = "move"
  /\ \E ti \in ThumbIndexDists, tip \in PointTips :
       IF variant = "V1"
       THEN /\ UNCHANGED thumb_index_dist
            /\ IF PointerSuspended
               THEN /\ pc' = FirstButton
                    /\ UNCHANGED <<smooth_queue, pend, err>>
               ELSE MapAndMove(tip, MoveDurationV1)
       ELSE /\ thumb_index_dist' = <<ti>>
            /\ IF SmoothingRaises(ti, start_smooth_distance, min_distance)
               THEN /\ Raise("ZeroDivisionError: smoothing")
                    /\ UNCHANGED smooth_queue
               ELSE IF PointerSuspended
               THEN /\ pc' = FirstButton
                    /\ UNCHANGED <<smooth_queue, pend, err>>
               ELSE MapAndMove(tip, Smoothing(ti, start_smooth_distance,
                                              min_distance, max_smoothing))
  /\ obs' = [obs EXCEPT !.delta = None, !.sens = None, !.en = None]
  /\ UNCHANGED <<hotkey, calls, camera, last_down, stop_flag, enabled, left_button_down,
                 right_button_down, scroll_y_prev, scroll_mode, config,
                 close_dist, resources, frameCmds, prev>>

\* MainV1.py: pyautogui.moveTo(..) is not guarded; mouse9.py wraps it in
\* try/except Exception and goes on
MoveToFailed ==
  IF variant = "V1"
  THEN Raise("moveTo")
  ELSE /\ pc' = FirstButton
       /\ pend' = NoPend
       /\ UNCHANGED err

MoveCall ==
  /\ pc = "move_call"
  /\ \E ok \in BOOLEAN :
       /\ frameCmds' = Append(frameCmds,
                              Cmd("MoveTo", "none", pend.x, pend.y, pend.n))
       /\ IF ok
          THEN /\ pc' = FirstButton
               /\ pend' = NoPend
               /\ UNCHANGED err
          ELSE MoveToFailed
  /\ UNCHANGED <<hotkey, calls, camera, last_down, stop_flag, enabled, engine, config, close_dist,
                 thumb_index_dist, resources, obs, prev>>

\* a slip: level-triggered, the button's flag is not consulted
ButtonDecision_Level(pred, down) ==
  IF ~enabled THEN "none" ELSE IF pred THEN "ButtonDown" ELSE "ButtonUp"

\* a slip: a held button is released although control is disabled
ButtonDecision_ReleaseWhenDisabled(pred, down) ==
  IF pred
  THEN IF ~down /\ enabled THEN "ButtonDown" ELSE "none"
  ELSE IF down THEN "ButtonUp" ELSE "none"

\* one button's edge-triggered decision: which call, if any, comes next
ButtonDecision(pred, down) ==
  IF pred
  THEN IF ~down /\ enabled THEN "ButtonDown" ELSE "none"
  ELSE IF down /\ enabled THEN "ButtonUp" ELSE "none"

\* the frame's thumb-index distance: every calculate_distance(thumb_tip,
\* index_tip) * frame_width of one frame reads the same landmarks, so the value
\* is drawn where the frame first computes it and is the same afterwards
FrameThumbIndex(ti) == thumb_index_dist # None => <<ti>> = thumb_index_dist

\* left button: distance, threshold, flag and enabled are read; mouse9.py
\* computes the thumb-index distance a second time from the same landmarks
Left ==
  /\ pc = "left"
  /\ \E ti \in ThumbIndexDists :
       /\ FrameThumbIndex(ti)
       /\ thumb_index_dist' = <<ti>>
       /\ LET pred == LeftPredicate(ti, left_click_threshold)
              call == ButtonDecision(pred, left_button_down)
          IN  /\ obs' = [obs EXCEPT !.left =
                             IF ~enabled THEN "unknown"
                             ELSE IF ti < left_click_threshold THEN "below"
                             ELSE "above"]
              /\ IF call = "none"
                 THEN pc' = AfterButton("left") /\ UNCHANGED pend
                 ELSE pc' = "left_call" /\ pend' = Pend(call, "left", 0, 0, 0)
  /\ UNCHANGED <<hotkey, calls, camera, last_down, stop_flag, enabled, engine, config, err, close_dist,
                 resources, frameCmds, prev>>

\* pyautogui.mouseDown/mouseUp(button='left'); self.left_button_down = ..
LeftCall ==
  /\ pc = "left_call"
  /\ \E ok \in BOOLEAN :
       /\ frameCmds' = Append(frameCmds, Cmd(pend.kind, "left", 0, 0, 0))
       /\ IF ok
          THEN /\ left_button_down' = (pend.kind = "ButtonDown")
               /\ last_down' = [last_down EXCEPT
                                  !.left = (frameCmds'[Len(frameCmds')].kind
                                            = "ButtonDown")]
               /\ pc' = AfterButton("left")
               /\ pend' = NoPend
               /\ UNCHANGED err
          ELSE /\ Raise(IF pend.kind = "ButtonDown" THEN "mouseDown"
                                                   ELSE "mouseUp")
               /\ UNCHANGED <<left_button_down, last_down>>
  /\ UNCHANGED <<hotkey, calls, camera, stop_flag, enabled, smooth_queue, right_button_down,
                 scroll_y_prev, scroll_mode, config, close_dist,
                 thumb_index_dist, resources, obs, prev>>

\* right button.  The code reads right_click_threshold once per conjunct; a
\* slider write between two reads yields the predicate's value for one of the
\* thresholds read (true: the larger one, false: the one whose conjunct
\* failed), which is what a write before or after this step yields.
Right ==
  /\ pc = "right"
  /\ \E ti \in ThumbIndexDists, tm \in ThumbMiddleDists :
       /\ FrameThumbIndex(ti)
       /\ thumb_index_dist' = <<ti>>
       /\ LET pred == RightPredicate(ti, tm, close_dist[1],
                                     right_click_threshold)
              call == ButtonDecision(pred, right_button_down)
          IN  /\ obs' = [obs EXCEPT !.right =
                             IF ~enabled THEN "unknown"
                             ELSE IF /\ ti < right_click_threshold
                                     /\ tm < right_click_threshold
                                     /\ close_dist[1] < right_click_threshold
                             THEN "below"
                             ELSE "above"]
              /\ IF call = "none"
                 THEN pc' = AfterButton("right") /\ UNCHANGED pend
                 ELSE pc' = "right_call"
                      /\ pend' = Pend(call, "right", 0, 0, 0)
  /\ UNCHANGED <<hotkey, calls, camera, last_down, stop_flag, enabled, engine, config, err, close_dist,
                 resources, frameCmds, prev>>

RightCall ==
  /\ pc = "right_call"
  /\ \E ok \in BOOLEAN :
       /\ frameCmds' = Append(frameCmds, Cmd(pend.kind, "right", 0, 0, 0))
       /\ IF ok
          THEN /\ right_button_down' = (pend.kind = "ButtonDown")
               /\ last_down' = [last_down EXCEPT
                                  !.right = (frameCmds'[Len(frameCmds')].kind
                                            = "ButtonDown")]
               /\ pc' = AfterButton("right")
               /\ pend' = NoPend
               /\ UNCHANGED err
          ELSE /\ Raise(IF pend.kind = "ButtonDown" THEN "mouseDown"
                                                   ELSE "mouseUp")
               /\ UNCHANGED <<right_button_down, last_down>>
  /\ UNCHANGED <<hotkey, calls, camera, stop_flag, enabled, smooth_queue, left_button_down,
                 scroll_y_prev, scroll_mode, config, close_dist,
                 thumb_index_dist, resources, obs, prev>>

\* debug overlay, cv2.imshow, cv2.waitKey(1): 'q' breaks out of the loop
Show ==
  /\ pc = "show"
  /\ \E q \in BOOLEAN : pc' = IF q THEN "cleanup" ELSE "top"
  /\ windows_open' = TRUE
  /\ close_dist' = None
  /\ thumb_index_dist' = None
  /\ frameCmds' = <<>>
  /\ obs' = NoObs
  /\ prev' = [kind |-> obs.kind,
              left |-> IF obs.kind = "nohand" THEN "unknown" ELSE obs.left,
              right |-> IF obs.kind = "nohand" THEN "unknown" ELSE obs.right,
              handKind |-> IF obs.kind = "nohand" THEN prev.handKind
                           ELSE obs.kind,
              y |-> IF obs.kind = "nohand" THEN prev.y ELSE obs.cur]
  /\ UNCHANGED <<hotkey, calls, camera, last_down, stop_flag, enabled, engine, config, err, pend,
                 cap_open>>

\* cap.release(); cv2.destroyAllWindows()
Cleanup ==
  /\ pc = "cleanup"
  /\ pc' = "done"
  /\ cap_open' = FALSE
  /\ windows_open' = FALSE
  /\ UNCHANGED <<hotkey, calls, camera, last_down, stop_flag, enabled, engine, config, err, locals,
                 ghost>>

\* ------------------------------------------------------- the other threads
\* Ctrl+Q: with controller.lock: controller.enabled = not controller.enabled.
\* Nothing else takes the lock or writes enabled, and the worker only reads
\* it, so the worker sees the old or the new value: one step.
toggleEnabled ==
  /\ enabled' = ~enabled
  /\ UNCHANGED <<hotkey, calls, camera, last_down, stop_flag, engine, config, pc, err, locals,
                 resources, ghost>>

\* ---- toggleEnabled step by step, for any number of threads calling it
\* a slip: the update is made without taking the lock
LockFree_NoLock == TRUE

\* threading.Lock: acquire blocks while another thread holds it
LockFree == lock = None

\* with controller.lock: (enter)
toggleEnabled_Acquire ==
  /\ \E t \in HotkeyThreads :
       /\ hk_pc[t] = "idle"
       /\ LockFree
       /\ lock' = <<t>>
       /\ hk_pc' = [hk_pc EXCEPT ![t] = "read"]
  /\ UNCHANGED <<hk_read, toggles_odd, calls, camera, last_down, stop_flag, enabled,
                 engine, config, pc, err, locals, resources, ghost>>

\* the right-hand side: controller.enabled is loaded
toggleEnabled_Read ==
  /\ \E t \in HotkeyThreads :
       /\ hk_pc[t] = "read"
       /\ hk_read' = [hk_read EXCEPT ![t] = <<enabled>>]
       /\ hk_pc' = [hk_pc EXCEPT ![t] = "write"]
  /\ UNCHANGED <<lock, toggles_odd, calls, camera, last_down, stop_flag, enabled,
                 engine, config, pc, err, locals, resources, ghost>>

\* controller.enabled = not <the value loaded>
toggleEnabled_Write ==
  /\ \E t \in HotkeyThreads :
       /\ hk_pc[t] = "write"
       /\ enabled' = ~hk_read[t][1]
       /\ hk_read' = [hk_read EXCEPT ![t] = None]
       /\ hk_pc' = [hk_pc EXCEPT ![t] = "release"]
  /\ UNCHANGED <<lock, toggles_odd, calls, camera, last_down, stop_flag, engine, config,
                 pc, err, locals, resources, ghost>>

\* print(..); the with-block ends, the lock is released, the call returns
toggleEnabled_Release ==
  /\ \E t \in HotkeyThreads :
       /\ hk_pc[t] = "release"
       /\ lock' = None
       /\ hk_pc' = [hk_pc EXCEPT ![t] = "idle"]
  /\ toggles_odd' = ~toggles_odd
  /\ UNCHANGED <<hk_read, calls, camera, last_down, stop_flag, enabled, engine, config,
                 pc, err, locals, resources, ghost>>

\* tray menu "exit": self.controller.stop(); self.quit()
exitApp ==
  /\ ~stop_flag
  /\ stop_flag' = TRUE
  /\ UNCHANGED <<hotkey, calls, camera, last_down, enabled, engine, config, pc, err, locals, resources,
                 ghost>>

\* the settings window lives until exitApp quits the Qt event loop;
\* valueChanged fires only for a value different from the slider's
onLeftThresholdChanged ==
  /\ ~stop_flag
  /\ \E val \in ThresholdVals \ {left_click_threshold} :
       left_click_threshold' = val
  /\ UNCHANGED <<hotkey, calls, camera, last_down, stop_flag, enabled, engine, right_click_threshold,
                 scroll_sensitivity, start_smooth_distance, min_distance,
                 max_smoothing, pc, err, locals, resources, ghost>>

onRightThresholdChanged ==
  /\ ~stop_flag
  /\ \E val \in ThresholdVals \ {right_click_threshold} :
       right_click_threshold' = val
  /\ UNCHANGED <<hotkey, calls, camera, last_down, stop_flag, enabled, engine, left_click_threshold,
                 scroll_sensitivity, start_smooth_distance, min_distance,
                 max_smoothing, pc, err, locals, resources, ghost>>

onScrollSensitivityChanged ==
  /\ ~stop_flag
  /\ \E val \in SensVals \ {scroll_sensitivity} :
       scroll_sensitivity' = val
  /\ UNCHANGED <<hotkey, calls, camera, last_down, stop_flag, enabled, engine, left_click_threshold,
                 right_click_threshold, start_smooth_distance, min_distance,
                 max_smoothing, pc, err, locals, resources, ghost>>

\* mouse9.py only: self.controller.max_smoothing = val / 100.0
onMaxSmoothingChanged ==
  /\ ~stop_flag
  /\ variant = "M9"
  /\ \E val \in MaxSmoothVals \ {max_smoothing \div 10} :
       max_smoothing' = val * 10
  /\ UNCHANGED <<hotkey, calls, camera, last_down, stop_flag, enabled, engine, left_click_threshold,
                 right_click_threshold, scroll_sensitivity,
                 start_smooth_distance, min_distance, pc, err, locals,
                 resources, ghost>>

onMinDistanceChanged ==
  /\ ~stop_flag
  /\ variant = "M9"
  /\ \E val \in MinDistVals \ {min_distance} : min_distance' = val
  /\ UNCHANGED <<hotkey, calls, camera, last_down, stop_flag, enabled, engine, left_click_threshold,
                 right_click_threshold, scroll_sensitivity,
                 start_smooth_distance, max_smoothing, pc, err, locals,
                 resources, ghost>>

onStartSmoothDistanceChanged ==
  /\ ~stop_flag
  /\ variant = "M9"
  /\ \E val \in StartSmoothVals \ {start_smooth_distance} :
       start_smooth_distance' = val
  /\ UNCHANGED <<hotkey, calls, camera, last_down, stop_flag, enabled, engine, left_click_threshold,
                 right_click_threshold, scroll_sensitivity, min_distance,
                 max_smoothing, pc, err, locals, resources, ghost>>

\* the engine with the hotkey, the tray menu and the sliders both programs
\* have.  SpecButtons, SpecScroll and SpecStop take the worker and the part
\* of these surroundings that a property rests on: each of their behaviours
\* is a behaviour of this specification.
Next ==
  \/ Top \/ Read \/ Gesture \/ ScrollCall \/ Move \/ MoveCall
  \/ Left \/ LeftCall \/ Right \/ RightCall \/ Show \/ Cleanup
  \/ toggleEnabled \/ exitApp
  \/ onLeftThresholdChanged \/ onRightThresholdChanged
  \/ onScrollSensitivityChanged

Spec == Init /\ [][Next]_vars

\* the engine with the hotkey and the two click-threshold sliders
NextButtons ==
  \/ Top \/ Read \/ Gesture \/ ScrollCall \/ Move \/ MoveCall
  \/ Left \/ LeftCall \/ Right \/ RightCall \/ Show \/ Cleanup
  \/ toggleEnabled
  \/ onLeftThresholdChanged \/ onRightThresholdChanged

SpecButtons == Init /\ [][NextButtons]_vars

\* the engine with the hotkey and the scroll-sensitivity slider
NextScroll ==
  \/ Top \/ Read \/ Gesture \/ ScrollCall \/ Move \/ MoveCall
  \/ Left \/ LeftCall \/ Right \/ RightCall \/ Show \/ Cleanup
  \/ toggleEnabled
  \/ onScrollSensitivityChanged

SpecScroll == Init /\ [][NextScroll]_vars

\* the worker alone, behind any camera
NextCamera ==
  \/ Top \/ Read \/ Gesture \/ ScrollCall \/ Move \/ MoveCall
  \/ Left \/ LeftCall \/ Right \/ RightCall \/ Show \/ Cleanup

SpecCamera == InitCamera /\ [][NextCamera]_vars

\* mouse9.py's worker with the three smoothing sliders
NextSmoothing ==
  \/ Top \/ Read \/ Gesture \/ ScrollCall \/ Move \/ MoveCall
  \/ Left \/ LeftCall \/ Right \/ RightCall \/ Show \/ Cleanup
  \/ onMaxSmoothingChanged \/ onMinDistanceChanged
  \/ onStartSmoothDistanceChanged

SpecSmoothing == InitM9 /\ [][NextSmoothing]_vars

\* ------------------------------------- functions of the engine on their own
\* what the mapper yields for a fingertip in the frame's top-left corner and
\* for one in its bottom-right corner
FilterInputs ==
  {<<MapAxis(0, UsualFrame[1], ScreenW), MapAxis(0, UsualFrame[2], ScreenH)>>,
   <<MapAxis(TipDen, UsualFrame[1], ScreenW),
     MapAxis(TipDen, UsualFrame[2], ScreenH)>>}

\* smooth_coordinates(new_x, new_y): append, average, clamp.  After the
\* append the queue is never empty, so `if len(self.smooth_queue) == 0` is
\* never taken.
smooth_coordinates ==
  /\ Len(history) < MaxCalls
  /\ \E new \in FilterInputs :
       LET q == Append15(smooth_queue, new)
       IN  /\ smooth_queue' = q
           /\ call_args' = <<new>>
           /\ call_result' = <<SmoothCoordinates(q)>>
           /\ history' = Append(history, new)
  /\ UNCHANGED <<hotkey, camera, last_down, stop_flag, enabled, left_button_down,
                 right_button_down, scroll_y_prev, scroll_mode, config, pc,
                 err, locals, resources, ghost>>

NextFilter == smooth_coordinates

\* mouse9.py's smoothing rule for one thumb-index distance under the settings
\* as the sliders have left them
ComputeSmoothing ==
  /\ \E d \in 0..MaxDist :
       /\ call_args' = <<d, start_smooth_distance, min_distance,
                         max_smoothing>>
       /\ call_result' =
            IF SmoothingRaises(d, start_smooth_distance, min_distance)
            THEN None
            ELSE <<Smoothing(d, start_smooth_distance, min_distance,
                             max_smoothing)>>
  /\ UNCHANGED <<hotkey, history, camera, last_down, stop_flag, enabled, engine, config,
                 pc, err, locals, resources, ghost>>

NextFactor ==
  \/ ComputeSmoothing
  \/ onMaxSmoothingChanged \/ onMinDistanceChanged
  \/ onStartSmoothDistanceChanged

SpecFactor == InitM9 /\ [][NextFactor]_vars

\* the ROI mapping of one fingertip for one camera and one screen; None when
\* the division by roi_w or roi_h raises
MapPoint ==
  /\ \E tx \in 0..TipDen, ty \in 0..TipDen, fs \in FrameSizes,
        scr \in Screens :
       /\ call_args' = <<tx, ty, fs[1], fs[2], scr[1], scr[2]>>
       /\ call_result' =
            IF RoiSize(fs[1]) = 0 \/ RoiSize(fs[2]) = 0
            THEN None
            ELSE << <<MapAxis(tx, fs[1], scr[1]),
                      MapAxis(ty, fs[2], scr[2])>> >>
  /\ UNCHANGED <<hotkey, history, camera, last_down, stop_flag, enabled, engine, config,
                 pc, err, locals, resources, ghost>>

NextMap == MapPoint

SpecMap == InitV1 /\ [][NextMap]_vars

SpecFilter == InitV1 /\ [][NextFilter]_vars

\* every step of the worker thread
Worker ==
  \/ Top \/ Read \/ Gesture \/ ScrollCall \/ Move \/ MoveCall
  \/ Left \/ LeftCall \/ Right \/ RightCall \/ Show \/ Cleanup

\* the worker and the tray menu's exit.  The worker is a thread of its own
\* that the interpreter keeps scheduling, and cap.read() and the pyautogui
\* calls return: a worker step that stays possible is eventually taken.
NextStop ==
  \/ Top \/ Read \/ Gesture \/ ScrollCall \/ Move \/ MoveCall
  \/ Left \/ LeftCall \/ Right \/ RightCall \/ Show \/ Cleanup
  \/ exitApp

SpecStop == Init /\ [][NextStop]_vars /\ WF_vars(Worker)

\* the worker and the hotkey threads, toggleEnabled taken step by step
NextToggle ==
  \/ Top \/ Read \/ Gesture \/ ScrollCall \/ Move \/ MoveCall
  \/ Left \/ LeftCall \/ Right \/ RightCall \/ Show \/ Cleanup
  \/ toggleEnabled_Acquire \/ toggleEnabled_Read
  \/ toggleEnabled_Write \/ toggleEnabled_Release

SpecToggle == Init /\ [][NextToggle]_vars

\* the hotkey pressed while the worker is between two frames
toggleEnabled_BetweenFrames ==
  /\ pc = "top"
  /\ toggleEnabled

\* the click-threshold sliders moved before the worker's first frame has been
\* shown, and left alone from then on
onLeftThresholdChanged_AtStart ==
  /\ pc = "top"
  /\ ~windows_open
  /\ onLeftThresholdChanged

onRightThresholdChanged_AtStart ==
  /\ pc = "top"
  /\ ~windows_open
  /\ onRightThresholdChanged

\* the engine with thresholds that stay as they are once frames are processed
\* and with enabled changing only between frames
NextHeld ==
  \/ Top \/ Read \/ Gesture \/ ScrollCall \/ Move \/ MoveCall
  \/ Left \/ LeftCall \/ Right \/ RightCall \/ Show \/ Cleanup
  \/ toggleEnabled_BetweenFrames
  \/ onLeftThresholdChanged_AtStart \/ onRightThresholdChanged_AtStart

SpecHeld == Init /\ [][NextHeld]_vars

TypeOK ==
  /\ pc \in {"top", "read", "gesture", "scroll_call", "move", "move_call",
             "left", "left_call", "right", "right_call", "show", "cleanup",
             "done", "crashed"}
  /\ Len(smooth_queue) <= QueueLen

\* ================================================================= claims
IsLeft(c) == c.side = "left"
IsScroll(c) == c.kind = "ScrollBy"
IsMove(c) == c.kind = "MoveTo"
LeftCmds == SelectSeq(frameCmds, IsLeft)
ScrollCmds == SelectSeq(frameCmds, IsScroll)
MoveCmds == SelectSeq(frameCmds, IsMove)
Sign(n) == IF n > 0 THEN 1 ELSE IF n < 0 THEN -1 ELSE 0
InScreen(x, y) == 0 <= x /\ x <= ScreenW - 1 /\ 0 <= y /\ y <= ScreenH - 1
Degenerate == RoiSize(frame_width) <= 0 \/ RoiSize(frame_height) <= 0
\* kind of the most recent frame that showed a hand, the current one included
LastHandKind == IF obs.kind \in {"scroll", "point"} THEN obs.kind
                ELSE prev.handKind

\* C1: when a hand-present frame ends whose left decision read enabled as
\* true, and the frame before it was such a frame too (or there was none),
\* the frame has issued exactly ButtonDown(left) if its thumb-index distance is
\* strictly below left_click_threshold and the previous frame's was not,
\* exactly ButtonUp(left) if its distance is not below the threshold and the
\* previous frame's was, and no left command otherwise.
C1_LeftEdgeTriggered ==
  (pc = "show" /\ obs.left \in {"below", "above"}
               /\ prev.left \in {"none", "below", "above"})
  => LeftCmds = IF obs.left = "below" /\ prev.left # "below"
                THEN <<Cmd("ButtonDown", "left", 0, 0, 0)>>
                ELSE IF obs.left = "above" /\ prev.left = "below"
                THEN <<Cmd("ButtonUp", "left", 0, 0, 0)>>
                ELSE <<>>

\* a frame whose distance equals the threshold, after a frame below it, ends
\* having issued the one ButtonUp(left)
C1_Witness ==
  /\ pc = "show"
  /\ prev.left = "below"
  /\ obs.left = "above"
  /\ thumb_index_dist = <<left_click_threshold>>
  /\ LeftCmds = <<Cmd("ButtonUp", "left", 0, 0, 0)>>

\* C2: whenever the worker issues a command to pyautogui, enabled is true at
\* that moment.
C2_NoCommandWhileDisabled ==
  [][Len(frameCmds') > Len(frameCmds) => enabled]_vars

\* C3: with a non-degenerate sensing rectangle every mapped coordinate, as
\* MainV1.py appends it to the history and as mouse9.py passes it to moveTo,
\* lies within [0, screenWidth-1] x [0, screenHeight-1].
C3_MapperWithinScreen ==
  ~Degenerate =>
    /\ \A i \in 1..Len(smooth_queue) :
         InScreen(smooth_queue[i][1], smooth_queue[i][2])
    /\ (variant = "M9" /\ pend.kind = "MoveTo") => InScreen(pend.x, pend.y)

\* C4: with a degenerate sensing rectangle no MoveTo is issued and the mapping
\* raises no ZeroDivisionError.
C4_DegenerateFailsClosed ==
  Degenerate =>
    /\ err # "ZeroDivisionError: roi"
    /\ pend.kind # "MoveTo"
    /\ MoveCmds = <<>>

\* C5: no exception ends the worker.
C5_WorkerSurvivesFailures == pc # "crashed"

\* C6: min_distance < start_smooth_distance in every state, and the
\* interpolation never divides by zero.
C6_MinBelowStart ==
  /\ min_distance < start_smooth_distance
  /\ err # "ZeroDivisionError: smoothing"

\* the scroll commands a scroll decision with difference d and sensitivity s
\* must have led to; with `strict` the amount's sign must be opposite to d's,
\* without it the amount may also be 0
ScrollAsClaimed(d, s, strict) ==
  LET n == -(TruncDiv(d, s) * scroll_multiplier)
  IN  IF Abs(d) > scroll_threshold
      THEN /\ ScrollCmds = <<Cmd("ScrollBy", "none", 0, 0, n)>>
           /\ Sign(n) = -Sign(d) \/ (~strict /\ n = 0)
      ELSE ScrollCmds = <<>>

\* the scroll decision of this frame was taken with a previous Y present and
\* enabled read as true, and its call, if any, has returned or raised
ScrollDecided ==
  /\ pc = "move" \/ (pc = "crashed" /\ err = "scroll")
  /\ obs.kind = "scroll"
  /\ obs.delta # None
  /\ obs.en = <<TRUE>>

\* C7 as stated: after such a decision with delta = currentY - previousY,
\* exactly one ScrollBy(-(trunc(delta / scrollSensitivity)) * scrollMultiplier)
\* was issued if |delta| > scrollThreshold, its sign opposite to delta's, and
\* none if |delta| <= scrollThreshold.
C7_Original ==
  ScrollDecided => ScrollAsClaimed(obs.delta[1], obs.sens[1], TRUE)

\* C7 amended: the same, the amount's sign being opposite to delta's or the
\* amount being 0 (the quotient truncates to 0 when |delta| < sensitivity).
C7_ScrollAmount ==
  ScrollDecided => ScrollAsClaimed(obs.delta[1], obs.sens[1], FALSE)

\* a decision with delta = -7 and sensitivity 5 has issued ScrollBy(4): the
\* quotient was truncated (-1), not floored (-2)
C7_Witness ==
  /\ ScrollDecided
  /\ obs.delta = <<-7>>
  /\ obs.sens = <<5>>
  /\ ScrollCmds = <<Cmd("ScrollBy", "none", 0, 0, 4)>>

\* C8: from a hand-present frame without the scroll gesture until the next
\* hand-present frame decides, scroll_mode is false and scroll_y_prev is
\* absent; and a scroll-gesture frame whose previous hand-present frame had no
\* scroll gesture issues no ScrollBy.
C8_ResetOnLeavingScroll ==
  /\ LastHandKind = "point" => (scroll_mode = FALSE /\ scroll_y_prev = None)
  /\ (obs.kind = "scroll" /\ prev.handKind = "point")
       => (pend.kind # "ScrollBy" /\ ScrollCmds = <<>>)

\* a scroll-gesture frame at the far Y, right after a pointing frame, ends
\* with enabled true and without a ScrollBy
C8_Witness ==
  /\ pc = "show"
  /\ enabled
  /\ obs.kind = "scroll"
  /\ prev.kind = "point"
  /\ obs.cur = <<CurrentScrollY(12)>>

\* C9 as stated: a ScrollBy is issued only in a frame whose immediately
\* preceding processed frame showed the scroll gesture.
C9_Original ==
  pc = "scroll_call" => prev.kind = "scroll"

\* C9 amended: a ScrollBy is issued only in a frame whose most recent
\* hand-present predecessor showed the scroll gesture, and its amount is
\* computed from this frame's Y and that frame's Y; frames without a hand may
\* lie between the two.
C9_ScrollFromLastHandFrame ==
  pc = "scroll_call" =>
    /\ prev.handKind = "scroll"
    /\ prev.y # None
    /\ pend.n = -(TruncDiv(obs.cur[1] - prev.y[1], obs.sens[1])
                  * scroll_multiplier)

\* a ScrollBy is about to be issued right after a frame without a hand
C9_Witness ==
  /\ pc = "scroll_call"
  /\ prev.kind = "nohand"
  /\ prev.handKind = "scroll"

\* C10: the worker's steps of a frame whose read failed or that showed no hand
\* change none of smooth_queue, left_button_down, right_button_down,
\* scroll_y_prev, scroll_mode, and issue no command.
C10_NoHandNoOp ==
  [][((pc = "read" /\ pc' \in {"top", "show"})
      \/ (pc = "show" /\ obs.kind = "nohand"))
     => (UNCHANGED engine /\ frameCmds = <<>> /\ frameCmds' = <<>>)]_vars

\* a frame without a hand ends while the left button is down and a previous
\* scroll Y is held
C10_Witness ==
  /\ pc = "show"
  /\ obs.kind = "nohand"
  /\ left_button_down
  /\ scroll_mode
  /\ scroll_y_prev # None

IsRight(c) == c.side = "right"
RightCmds == SelectSeq(frameCmds, IsRight)

\* C13: when a hand-present frame ends whose right decision read enabled as
\* true, right_button_down is true exactly if the frame's thumb-index,
\* thumb-middle and index-middle distances were all strictly below
\* right_click_threshold; and if the frame before it was such a frame too (or
\* there was none), the frame has issued exactly ButtonDown(right) if the
\* predicate became true, exactly ButtonUp(right) if it became false, and no
\* right command if it kept its value.
C13_RightIffAllClose ==
  (pc = "show" /\ obs.right \in {"below", "above"})
  => /\ right_button_down = (obs.right = "below")
     /\ prev.right \in {"none", "below", "above"}
        => RightCmds = IF obs.right = "below" /\ prev.right # "below"
                       THEN <<Cmd("ButtonDown", "right", 0, 0, 0)>>
                       ELSE IF obs.right = "above" /\ prev.right = "below"
                       THEN <<Cmd("ButtonUp", "right", 0, 0, 0)>>
                       ELSE <<>>

\* after a frame with all three distances below the threshold, a frame whose
\* thumb-index distance is still below it but whose index-middle distance
\* equals it ends having issued the one ButtonUp(right)
C13_Witness ==
  /\ pc = "show"
  /\ prev.right = "below"
  /\ obs.right = "above"
  /\ thumb_index_dist # None
  /\ thumb_index_dist[1] < right_click_threshold
  /\ close_dist = <<right_click_threshold>>
  /\ RightCmds = <<Cmd("ButtonUp", "right", 0, 0, 0)>>

\* C14: a frame that shows the scroll gesture issues no MoveTo, no frame
\* issues both a MoveTo and a ScrollBy, and a ScrollBy is issued only while
\* scroll_mode is true.
C14_ScrollExcludesMove ==
  /\ obs.kind = "scroll" => (MoveCmds = <<>> /\ pend.kind # "MoveTo")
  /\ ~(MoveCmds # <<>> /\ (ScrollCmds # <<>> \/ pend.kind = "ScrollBy"))
  /\ ~(ScrollCmds # <<>> /\ pend.kind = "MoveTo")
  /\ (ScrollCmds # <<>> \/ pend.kind = "ScrollBy") => scroll_mode

\* a scroll-gesture frame ends, enabled, having issued a ScrollBy and nothing
\* that moves the pointer
C14_Witness ==
  /\ pc = "show"
  /\ enabled
  /\ obs.kind = "scroll"
  /\ Len(ScrollCmds) = 1
  /\ MoveCmds = <<>>

\* C17: within a frame no right-button command is issued before a left-button
\* command, and the commands of a frame that issues one of each agree with
\* that frame's distances: ButtonDown(left) exactly if the thumb-index distance
\* was below left_click_threshold, ButtonDown(right) exactly if all three
\* distances were below right_click_threshold.
C17_LeftBeforeRight ==
  /\ \A i, j \in 1..Len(frameCmds) :
       (i < j /\ frameCmds[j].side = "left") => frameCmds[i].side # "right"
  /\ pend.side = "left" => RightCmds = <<>>
  /\ (LeftCmds # <<>> /\ RightCmds # <<>>)
       => /\ Len(LeftCmds) = 1 /\ Len(RightCmds) = 1
          /\ (LeftCmds[1].kind = "ButtonDown") = (obs.left = "below")
          /\ (RightCmds[1].kind = "ButtonDown") = (obs.right = "below")

\* one frame has issued ButtonDown(left) and then ButtonDown(right)
C17_Witness ==
  /\ pc = "show"
  /\ LeftCmds = <<Cmd("ButtonDown", "left", 0, 0, 0)>>
  /\ RightCmds = <<Cmd("ButtonDown", "right", 0, 0, 0)>>
  /\ frameCmds[Len(frameCmds)].side = "right"

\* run() has returned or an exception has ended it
WorkerEnded == pc \in {"done", "crashed"}
\* the worker is outside `while not self._stop_flag`
LoopLeft == pc \in {"cleanup", "done", "crashed"}

\* C15: when the worker thread has ended, by the stop flag, by the 'q' key or
\* by an exception raised inside a frame, the capture device is released and
\* the windows are destroyed.
C15_CleanupOnEveryExit ==
  WorkerEnded => (~cap_open /\ ~windows_open)

\* C16: once stop() has been called the worker eventually leaves its loop;
\* having seen the flag at the top of the loop it starts no frame, and from
\* the first time it stands at the top of the loop with the flag set it
\* issues no command and never enters a frame again, so only the frame in
\* flight when stop() was called still issues commands.
C16_StopEndsLoop ==
  /\ stop_flag ~> LoopLeft
  /\ [][(stop_flag /\ pc \in {"top", "cleanup", "done"})
         => (pc' \in {"top", "cleanup", "done"} /\ frameCmds' = frameCmds)]_vars

\* stop() was called during a frame that pressed the left button; the frame
\* has ended and the worker stands at the top of the loop
C16_Witness ==
  /\ stop_flag
  /\ pc = "top"
  /\ prev.kind = "point"
  /\ prev.left = "below"
  /\ left_button_down

\* no thread is inside toggleEnabled
NoToggleRunning == \A t \in HotkeyThreads : hk_pc[t] = "idle"

\* C18: whenever no toggleEnabled call is in progress, enabled is its initial
\* value true negated once per call that has returned, whatever number of
\* threads made the calls and however they interleaved with each other and
\* with the worker; at most one thread is inside the lock.
C18_NoToggleLost ==
  /\ NoToggleRunning => (enabled = ~toggles_odd)
  /\ Cardinality({t \in HotkeyThreads : hk_pc[t] # "idle"}) <= 1

\* one call has returned and left enabled false; a second call, on another
\* thread, holds the lock and has loaded that value, while the worker is in
\* the middle of a frame about to decide the left button
C18_Witness ==
  /\ toggles_odd
  /\ ~enabled
  /\ \E t \in HotkeyThreads :
       lock = <<t>> /\ hk_pc[t] = "write" /\ hk_read[t] = <<FALSE>>
  /\ pc = "left"

\* every coordinate handed to the filter so far is the same one
RepeatedInput == \A i \in 1..Len(history) : history[i] = history[1]

\* C11: once smooth_coordinates has been called 15 times or more, always with
\* the same mapped coordinate, its result is that coordinate.
C11_RepeatedInputIsFixedPoint ==
  (Len(history) >= QueueLen /\ RepeatedInput)
    => call_result = <<history[1]>>

\* the last min(k, 15) of the k coordinates handed to the filter
LastInputs ==
  SubSeq(history, Len(history) - Min(Len(history), QueueLen) + 1,
         Len(history))

RECURSIVE MeanNumerator(_, _)
\* component c of the entries of w, the i-th from the front weighted i
MeanNumerator(w, c) ==
  IF w = <<>> THEN 0
  ELSE Len(w) * w[Len(w)][c] + MeanNumerator(SubSeq(w, 1, Len(w) - 1), c)

RECURSIVE MeanDenominator(_)
MeanDenominator(n) == IF n = 0 THEN 0 ELSE n + MeanDenominator(n - 1)

\* the weighted mean of LastInputs on one axis, made an integer by rounding to
\* the nearest or by dropping the fraction, then clamped to [0, limit - 1]
MeanAsClaimed(c, limit, nearest) ==
  LET num == MeanNumerator(LastInputs, c)
      den == MeanDenominator(Len(LastInputs))
      m == IF nearest THEN RoundDiv(num, den) ELSE num \div den
  IN  Max(0, Min(limit - 1, m))

\* the history holds exactly the last min(k, 15) inputs, oldest first
QueueAsClaimed ==
  /\ Len(smooth_queue) <= QueueLen
  /\ smooth_queue = LastInputs

\* C20 as stated: each result is the weighted mean of the last min(k, 15)
\* inputs, weights 1..n oldest to newest, rounded to the nearest integer and
\* clamped to the screen; the history never holds more than 15 entries and
\* evicts the oldest.
C20_Original ==
  history # <<>> =>
    /\ call_result = << <<MeanAsClaimed(1, ScreenW, TRUE),
                          MeanAsClaimed(2, ScreenH, TRUE)>> >>
    /\ QueueAsClaimed

\* C20 amended: the same, the mean's fraction being dropped (int(..)) instead
\* of rounded to the nearest integer.
C20_WeightedMean ==
  history # <<>> =>
    /\ call_result = << <<MeanAsClaimed(1, ScreenW, FALSE),
                          MeanAsClaimed(2, ScreenH, FALSE)>> >>
    /\ QueueAsClaimed

\* the 16th call: the first input was evicted, the history holds thirteen
\* top-left corners followed by two bottom-right corners, and the mean
\* 29 * ScreenW / 120 has lost its fraction
C20_Witness ==
  /\ Len(history) = QueueLen + 1
  /\ history[1] # history[2]
  /\ \A i \in 2..14 : history[i] = <<0, 0>>
  /\ history[15] = <<ScreenW, ScreenH>>
  /\ history[16] = <<ScreenW, ScreenH>>
  /\ Len(smooth_queue) = QueueLen
  /\ smooth_queue[1] = history[2]
  /\ call_result = << <<(29 * ScreenW) \div 120, (29 * ScreenH) \div 120>> >>
  /\ (29 * ScreenW) % 120 > 60

\* the smoothing rule was last applied under settings with
\* min_distance < start_smooth_distance; its arguments are
\* <<dist, start_smooth_distance, min_distance, max_smoothing>>
FactorCalled ==
  /\ call_args # None
  /\ Len(call_args) = 4
  /\ call_args[3] < call_args[2]

\* C12: under settings with min_distance < start_smooth_distance the factor
\* (in thousandths) is max_smoothing for every distance below min_distance,
\* min_smoothing for every distance above start_smooth_distance, and within
\* [min_smoothing, max_smoothing]; and of two applications under the same
\* settings the one with the larger distance never yields the larger factor.
C12_AdaptiveSmoothing ==
  /\ [](FactorCalled =>
          /\ call_result # None
          /\ call_args[1] < call_args[3] => call_result[1] = call_args[4]
          /\ call_args[1] > call_args[2] => call_result[1] = min_smoothing
          /\ min_smoothing <= call_result[1]
          /\ call_result[1] <= call_args[4])
  /\ [][(/\ FactorCalled
         /\ FactorCalled'
         /\ call_args'[2] = call_args[2]
         /\ call_args'[3] = call_args[3]
         /\ call_args'[4] = call_args[4]
         /\ call_args'[1] >= call_args[1])
        => call_result'[1] <= call_result[1]]_vars

\* half-way between min_distance 60 and start_smooth_distance 200, with
\* max_smoothing 0.05, the factor is 0.03
C12_Witness ==
  /\ call_args = <<130, 200, 60, 50>>
  /\ call_result = <<30>>

\* the mapper was last applied to a camera whose sensing rectangle has a
\* width and a height other than zero; its arguments are
\* <<tip x, tip y, frame_width, frame_height, screen_width, screen_height>>
MapperCalled ==
  /\ call_args # None
  /\ Len(call_args) = 6
  /\ call_args[3] # 2 * margin
  /\ call_args[4] # 2 * margin

\* trunc((clamp(pixel, rectMin, rectMax) - rectMin) * screenSize / rectSize)
\* for the pixel tip * fdim / TipDen, clamp(p, lo, hi) being max(lo, min(hi, p))
AxisAsClaimed(tip, fdim, sdim) ==
  LET rectMin == margin * TipDen
      rectMax == (fdim - margin) * TipDen
      pixel == tip * fdim
      inner == IF pixel < rectMax THEN pixel ELSE rectMax
      clamped == IF inner > rectMin THEN inner ELSE rectMin
      num == (clamped - rectMin) * sdim
  IN  IF num = 0 THEN 0 ELSE num \div (rectMax - rectMin)

\* C19: the fingertip (0.5, 0.5) in a 640x480 frame maps to (960, 540) on a
\* 1920x1080 screen, and every fingertip maps on each axis to
\* trunc((clamp(pixel, rectMin, rectMax) - rectMin) * screenSize / rectSize).
C19_MapperFormula ==
  MapperCalled =>
    /\ call_result =
         << <<AxisAsClaimed(call_args[1], call_args[3], call_args[5]),
              AxisAsClaimed(call_args[2], call_args[4], call_args[6])>> >>
    /\ (/\ 2 * call_args[1] = TipDen
        /\ 2 * call_args[2] = TipDen
        /\ <<call_args[3], call_args[4]>> = <<640, 480>>
        /\ <<call_args[5], call_args[6]>> = <<1920, 1080>>)
       => call_result = << <<960, 540>> >>

\* the scenario itself: the centre of the frame has been mapped to the centre
\* of the screen
C19_Witness ==
  /\ MapperCalled
  /\ 2 * call_args[1] = TipDen
  /\ 2 * call_args[2] = TipDen
  /\ <<call_args[3], call_args[4]>> = <<640, 480>>
  /\ <<call_args[5], call_args[6]>> = <<1920, 1080>>
  /\ call_result = << <<960, 540>> >>
\* the scroll branch of this frame has run to its end
ScrollBranchDone ==
  /\ obs.kind = "scroll"
  /\ pc \in {"move", "move_call", "left", "left_call", "right", "right_call",
             "show"}

\* C21: once the scroll branch of a scroll-gesture frame has run to its end,
\* scroll_y_prev is that frame's Y, whether or not a ScrollBy was issued; and
\* the amount of a ScrollBy issued in a frame right after a scroll-gesture
\* frame is computed from the difference between the two frames' Y.
C21_PrevYEveryScrollFrame ==
  /\ ScrollBranchDone => scroll_y_prev = obs.cur
  /\ (pc = "scroll_call" /\ prev.kind = "scroll")
       => pend.n = -(TruncDiv(obs.cur[1] - prev.y[1], obs.sens[1])
                     * scroll_multiplier)

\* a scroll-gesture frame whose difference exceeded the threshold read enabled
\* as false: it issued no ScrollBy, and the previous Y has moved to its Y
C21_Witness ==
  /\ pc = "move"
  /\ obs.kind = "scroll"
  /\ obs.delta # None
  /\ Abs(obs.delta[1]) > scroll_threshold
  /\ obs.en = <<FALSE>>
  /\ ScrollCmds = <<>>
  /\ prev.y # obs.cur
  /\ scroll_y_prev = obs.cur

\* both button decisions of this frame read enabled as false
DisabledFrame ==
  /\ obs.kind \in {"scroll", "point"}
  /\ obs.left = "unknown"
  /\ obs.right = "unknown"

\* C22: a button decision taken while enabled is false leads to no call and
\* leaves left_button_down and right_button_down as they were, whatever the
\* distances; the two flags change in no step but a button call; and a
\* hand-present frame whose two decisions read enabled as false has issued no
\* button command when it ends.
C22_DisabledFrameKeepsButtons ==
  /\ [](DisabledFrame => (LeftCmds = <<>> /\ RightCmds = <<>>))
  /\ [][((pc \in {"left", "right"} /\ ~enabled)
           => (/\ pc' \notin {"left_call", "right_call"}
               /\ UNCHANGED <<left_button_down, right_button_down>>))
        /\ (pc \notin {"left_call", "right_call"}
           => UNCHANGED <<left_button_down, right_button_down>>)]_vars

\* a frame with the thumb far from the index finger ends with both buttons
\* still down: both decisions read enabled as false and nothing was released
C22_Witness ==
  /\ pc = "show"
  /\ DisabledFrame
  /\ thumb_index_dist = <<100>>
  /\ left_button_down
  /\ right_button_down
  /\ LeftCmds = <<>>
  /\ RightCmds = <<>>

\* C23: every button call made for a side is mouseDown when the last call
\* that returned for the side was not mouseDown (or there was none), and
\* mouseUp when it was; a frame makes at most one button call per side; and
\* in every state a side's flag is true exactly when the last call that
\* returned for the side was mouseDown.  (A call that raises has delivered
\* nothing: pyautogui checks its fail-safe before it acts.)
C23_ButtonsAlternate ==
  /\ [](/\ left_button_down = last_down.left
        /\ right_button_down = last_down.right
        /\ Len(LeftCmds) <= 1
        /\ Len(RightCmds) <= 1)
  /\ [][Len(frameCmds') = Len(frameCmds) + 1
         => LET c == frameCmds'[Len(frameCmds')]
            IN  c.side \in {"left", "right"}
                  => ((c.kind = "ButtonDown") <=> ~last_down[c.side])]_vars

\* a frame ends having released both buttons, each pressed in a frame before
C23_Witness ==
  /\ pc = "show"
  /\ LeftCmds = <<Cmd("ButtonUp", "left", 0, 0, 0)>>
  /\ RightCmds = <<Cmd("ButtonUp", "right", 0, 0, 0)>>
  /\ last_down = [left |-> FALSE, right |-> FALSE]
  /\ ~left_button_down
  /\ ~right_button_down

\* the worker is between two frames, or has left the loop after a whole frame
FrameBoundary == pc \in {"top", "cleanup", "done"}

\* C24: between frames scroll_mode is true exactly when scroll_y_prev is
\* present; a scroll-gesture frame ends with both set and a hand-present frame
\* without the gesture with both cleared; and no step but the worker's
\* gesture decision and its scroll call changes either field.
C24_ScrollModeIffPrevY ==
  /\ [](FrameBoundary => (scroll_mode <=> scroll_y_prev # None))
  /\ []((pc = "show" /\ obs.kind = "scroll")
          => (scroll_mode /\ scroll_y_prev # None))
  /\ []((pc = "show" /\ obs.kind = "point")
          => (~scroll_mode /\ scroll_y_prev = None))
  /\ [][(scroll_mode' # scroll_mode \/ scroll_y_prev' # scroll_y_prev)
         => pc \in {"gesture", "scroll_call"}]_vars

\* between two frames, after a frame without a hand, scroll mode and the
\* previous Y of an earlier scroll-gesture frame are both still held
C24_Witness ==
  /\ pc = "top"
  /\ prev.kind = "nohand"
  /\ prev.handKind = "scroll"
  /\ scroll_mode
  /\ scroll_y_prev = prev.y
  /\ scroll_y_prev # None

\* C25: with thresholds that have not changed since the first frame and
\* right_click_threshold <= left_click_threshold, and enabled changing only
\* between frames: at every frame boundary right_button_down implies
\* left_button_down, and a frame that has issued ButtonDown(right) ends with
\* left_button_down true.
C25_RightImpliesLeft ==
  right_click_threshold <= left_click_threshold
  => /\ FrameBoundary => (right_button_down => left_button_down)
     /\ (pc = "show" /\ RightCmds = <<Cmd("ButtonDown", "right", 0, 0, 0)>>)
          => left_button_down

\* with the right threshold below the left one, a frame that pressed the
\* right button ends with the left button down, held since a frame before
C25_Witness ==
  /\ pc = "show"
  /\ right_click_threshold < left_click_threshold
  /\ RightCmds = <<Cmd("ButtonDown", "right", 0, 0, 0)>>
  /\ LeftCmds = <<>>
  /\ right_button_down
  /\ left_button_down

====
